---------------------------- MODULE Spec2Model ----------------------------
(***************************************************************************)
(* Intraday bar validation and ingestion pipeline                          *)
(* (src/src/intraday_data_collection.py and its utility modules).          *)
(*                                                                         *)
(* Timestamps are minutes since midnight of the trading day; the market    *)
(* time zone is fixed, so two datetimes compare as their minute values.    *)
(* A raw JSON value is a tagged record [k, n, s]: k is the Python type     *)
(* ("none", "num", "str", "bool"), n the number, s the string text.        *)
(***************************************************************************)
EXTENDS Integers, Sequences, FiniteSets, TLC

(***************************************************************************)
(* Bounds of the model                                                     *)
(***************************************************************************)
MaxBatch == 3

(***************************************************************************)
(* Raw values                                                              *)
(***************************************************************************)
None == [k |-> "none", n |-> 0, s |-> ""]
Num(x) == [k |-> "num", n |-> x, s |-> ""]
Str(t) == [k |-> "str", n |-> 0, s |-> t]
Bool(b) == [k |-> "bool", n |-> b, s |-> ""]

\* SQL NULL / Python None in a parsed numeric column
NULL == -1
\* Python None in a timestamp position
NoTs == -1

DATA_FIELDS == <<"date", "open", "high", "low", "close", "volume">>
REQUIRED_NUMERIC_FIELDS == <<"open", "high", "low", "volume">>

\* str.strip() on the strings of the model
Strip(t) ==
    CASE t \in {"", " ", "  "} -> ""
      [] t = " 2 " -> "2"
      [] OTHER -> t

\* float(str): Python accepts surrounding whitespace; -1 stands for ValueError
FloatOfStr(t) ==
    CASE Strip(t) = "1" -> 1
      [] Strip(t) = "2" -> 2
      [] Strip(t) = "3" -> 3
      [] OTHER -> -1

\* datetime.strptime(s, "%Y-%m-%d %H:%M:%S"): minutes since midnight,
\* NoTs stands for the ValueError of a string that does not match the format
StrpTime(t) ==
    CASE t = "2026-01-26 10:00:00" -> 600
      [] t = "2026-01-26 10:05:00" -> 605
      [] t = "2026-01-26 10:10:00" -> 610
      [] t = "2026-01-26 10:15:00" -> 615
      [] OTHER -> NoTs

\* variant: compares with "" without strip()
is_empty_no_strip(value) ==
    value.k = "none" \/ (value.k = "str" /\ value.s = "")

is_empty(value) ==
    value.k = "none" \/ (value.k = "str" /\ Strip(value.s) = "")

\* row.get(field): a key that is absent reads as None
Get(row, field) == row[field]

analyze_row(row, fields) ==
    LET missing_fields == SelectSeq(fields, LAMBDA f : is_empty(Get(row, f)))
    IN  [missing_fields |-> missing_fields,
         all_empty |-> Len(missing_fields) = Len(fields)]

_coerce_float(value) ==
    CASE value.k = "none" -> [num |-> NULL, ok |-> FALSE]
      [] value.k = "bool" -> [num |-> NULL, ok |-> FALSE]
      [] value.k = "num" -> [num |-> value.n, ok |-> TRUE]
      [] value.k = "str" ->
           IF FloatOfStr(value.s) # -1
           THEN [num |-> FloatOfStr(value.s), ok |-> TRUE]
           ELSE [num |-> NULL, ok |-> FALSE]
      [] OTHER -> [num |-> NULL, ok |-> FALSE]

\* parse_api_time raises for a non-string or a string of another format
parse_api_time(value) ==
    IF value.k = "str" THEN StrpTime(value.s) ELSE NoTs

align_to_5_minute(ts) == ts - (ts % 5)

\* variant: the wall clock is used even when a previous timestamp exists
infer_timestamp_wall_clock_only(last_ts, now, reason_prefix) ==
    [ts |-> align_to_5_minute(now), reason |-> reason_prefix \o "_wall_clock"]

infer_timestamp(last_ts, now, reason_prefix) ==
    IF last_ts # NoTs
    THEN [ts |-> last_ts + 5, reason |-> reason_prefix \o "_prev_row"]
    ELSE [ts |-> align_to_5_minute(now), reason |-> reason_prefix \o "_wall_clock"]

\* one line of db_insert_errors.csv written by log_db_error
DbError(symbol, operation, error_type, row_count) ==
    [symbol |-> symbol, operation |-> operation,
     error_type |-> error_type, row_count |-> row_count]

\* parsed values of a row that was not parsed
NoParsed ==
    [open |-> NULL, high |-> NULL, low |-> NULL, close |-> NULL, volume |-> NULL]

\* variant: the rejection is not logged
RejectedNotLogged(symbol, error_type, hard) ==
    [ts |-> NoTs, parsed |-> NoParsed, hard |-> hard, inferred |-> FALSE,
     err |-> error_type, logged |-> << >>]

\* the result of rejecting a row: no timestamp, one log line
Rejected(symbol, error_type, hard) ==
    [ts |-> NoTs, parsed |-> NoParsed, hard |-> hard, inferred |-> FALSE,
     err |-> error_type,
     logged |-> <<DbError(symbol, "LOAD", error_type, 1)>>]

\* variant: close is checked like the required numeric fields
InvalidFieldsCloseRequired(row) ==
    {f \in {"open", "high", "low", "close", "volume"} :
        is_empty(Get(row, f)) \/ ~_coerce_float(Get(row, f)).ok}

\* the numeric fields of the row that fail the schema/type check
InvalidFields(row) ==
    {f \in {"open", "high", "low", "volume"} :
        is_empty(Get(row, f)) \/ ~_coerce_float(Get(row, f)).ok}
    \cup (IF ~is_empty(Get(row, "close")) /\ ~_coerce_float(Get(row, "close")).ok
          THEN {"close"} ELSE {})

ParsedOf(row) ==
    [open |-> _coerce_float(Get(row, "open")).num,
     high |-> _coerce_float(Get(row, "high")).num,
     low |-> _coerce_float(Get(row, "low")).num,
     close |-> IF is_empty(Get(row, "close")) THEN NULL
               ELSE _coerce_float(Get(row, "close")).num,
     volume |-> _coerce_float(Get(row, "volume")).num]

\* variant: an empty date is inferred whatever happened earlier in the batch
_validate_and_parse_row_always_infers(row, symbol, hard_in, last, now) ==
    IF analyze_row(row, DATA_FIELDS).all_empty
    THEN Rejected(symbol, "AllFieldsEmpty", TRUE)
    ELSE IF ~is_empty(Get(row, "date")) /\ parse_api_time(Get(row, "date")) = NoTs
    THEN Rejected(symbol, "InvalidTimestamp", TRUE)
    ELSE IF InvalidFields(row) # {}
    THEN Rejected(symbol, "SchemaTypeMismatch", TRUE)
    ELSE [ts |-> IF is_empty(Get(row, "date"))
                 THEN infer_timestamp(last, now, "date_missing").ts
                 ELSE parse_api_time(Get(row, "date")),
          parsed |-> ParsedOf(row),
          hard |-> hard_in,
          inferred |-> is_empty(Get(row, "date")),
          err |-> "",
          logged |-> << >>]

_validate_and_parse_row(row, symbol, hard_in, last, now) ==
    IF analyze_row(row, DATA_FIELDS).all_empty
    THEN Rejected(symbol, "AllFieldsEmpty", TRUE)
    ELSE IF is_empty(Get(row, "date")) /\ hard_in
    THEN Rejected(symbol, "MissingDate", hard_in)
    ELSE IF ~is_empty(Get(row, "date")) /\ parse_api_time(Get(row, "date")) = NoTs
    THEN Rejected(symbol, "InvalidTimestamp", TRUE)
    ELSE IF InvalidFields(row) # {}
    THEN Rejected(symbol, "SchemaTypeMismatch", TRUE)
    ELSE [ts |-> IF is_empty(Get(row, "date"))
                 THEN infer_timestamp(last, now, "date_missing").ts
                 ELSE parse_api_time(Get(row, "date")),
          parsed |-> ParsedOf(row),
          hard |-> hard_in,
          inferred |-> is_empty(Get(row, "date")),
          err |-> "",
          logged |-> << >>]


(***************************************************************************)
(* _process_data_batch: the state of the loop and one iteration of it      *)
(***************************************************************************)
\* the tuple appended to rows for an accepted record
RowTuple(ts, parsed) ==
    [ts |-> ts, open |-> parsed.open, high |-> parsed.high, low |-> parsed.low,
     close |-> parsed.close, volume |-> parsed.volume]

\* the locals of _process_data_batch before the first iteration;
\* log holds the lines this call has appended to db_insert_errors.csv,
\* outcome and returned record, per input record, what became of it and
\* what _validate_and_parse_row returned for it
BatchStart ==
    [hard |-> FALSE, rows |-> << >>, last_ts |-> NoTs, seen_ts |-> {},
     log |-> << >>, outcome |-> << >>, returned |-> << >>]

\* the (ts_exch, parsed) pair of one call of _validate_and_parse_row
Returned(v) == [ts |-> v.ts, parsed |-> v.parsed, inferred |-> v.inferred]

\* variant: a repeated timestamp replaces the row stored for it (keep last)
BatchStepKeepLast(b, row, symbol, now) ==
    LET v == _validate_and_parse_row(row, symbol, b.hard, b.last_ts, now)
    IN  IF v.ts = NoTs
        THEN [b EXCEPT !.hard = v.hard,
                       !.log = b.log \o v.logged,
                       !.outcome = Append(b.outcome, v.err),
                       !.returned = Append(b.returned, Returned(v))]
        ELSE IF v.ts \in b.seen_ts
        THEN [b EXCEPT !.hard = TRUE,
                       !.log = Append(b.log, DbError(symbol, "LOAD", "DuplicateTimestamp", 1)),
                       !.rows = [k \in 1..Len(b.rows) |->
                                   IF b.rows[k].ts = v.ts
                                   THEN RowTuple(v.ts, v.parsed) ELSE b.rows[k]],
                       !.outcome = Append(b.outcome, "DuplicateTimestamp"),
                       !.returned = Append(b.returned, Returned(v))]
        ELSE [b EXCEPT !.hard = v.hard,
                       !.seen_ts = b.seen_ts \cup {v.ts},
                       !.last_ts = v.ts,
                       !.rows = Append(b.rows, RowTuple(v.ts, v.parsed)),
                       !.outcome = Append(b.outcome, "Accepted"),
                       !.returned = Append(b.returned, Returned(v))]

\* variant: a record whose timestamp lies outside the window of the run is
\* skipped, as the filter loop of fetch_and_insert does
BatchStepInWindow(b, row, symbol, now) ==
    LET v == _validate_and_parse_row(row, symbol, b.hard, b.last_ts, now)
        start == now - (now % 60)
        end5 == now - (now % 5)
        end == IF end5 < start + 5 THEN start + 5 ELSE end5
    IN  IF v.ts = NoTs
        THEN [b EXCEPT !.hard = v.hard,
                       !.log = b.log \o v.logged,
                       !.outcome = Append(b.outcome, v.err),
                       !.returned = Append(b.returned, Returned(v))]
        ELSE IF ~(start <= v.ts /\ v.ts < end)
        THEN [b EXCEPT !.outcome = Append(b.outcome, "OutOfWindow"),
                       !.returned = Append(b.returned, Returned(v))]
        ELSE IF v.ts \in b.seen_ts
        THEN [b EXCEPT !.hard = TRUE,
                       !.log = Append(b.log, DbError(symbol, "LOAD", "DuplicateTimestamp", 1)),
                       !.outcome = Append(b.outcome, "DuplicateTimestamp"),
                       !.returned = Append(b.returned, Returned(v))]
        ELSE [b EXCEPT !.hard = v.hard,
                       !.seen_ts = b.seen_ts \cup {v.ts},
                       !.last_ts = v.ts,
                       !.rows = Append(b.rows, RowTuple(v.ts, v.parsed)),
                       !.outcome = Append(b.outcome, "Accepted"),
                       !.returned = Append(b.returned, Returned(v))]

\* variant: the flag tells whether the last record was rejected, not whether
\* any record was
BatchStepFlagOfLastRecord(b, row, symbol, now) ==
    LET v == _validate_and_parse_row(row, symbol, b.hard, b.last_ts, now)
    IN  IF v.ts = NoTs
        THEN [b EXCEPT !.hard = v.hard,
                       !.log = b.log \o v.logged,
                       !.outcome = Append(b.outcome, v.err),
                       !.returned = Append(b.returned, Returned(v))]
        ELSE IF v.ts \in b.seen_ts
        THEN [b EXCEPT !.hard = TRUE,
                       !.log = Append(b.log, DbError(symbol, "LOAD", "DuplicateTimestamp", 1)),
                       !.outcome = Append(b.outcome, "DuplicateTimestamp"),
                       !.returned = Append(b.returned, Returned(v))]
        ELSE [b EXCEPT !.hard = FALSE,
                       !.seen_ts = b.seen_ts \cup {v.ts},
                       !.last_ts = v.ts,
                       !.rows = Append(b.rows, RowTuple(v.ts, v.parsed)),
                       !.outcome = Append(b.outcome, "Accepted"),
                       !.returned = Append(b.returned, Returned(v))]

\* the body of "for row in data"
BatchStep(b, row, symbol, now) ==
    LET v == _validate_and_parse_row(row, symbol, b.hard, b.last_ts, now)
    IN  IF v.ts = NoTs
        THEN [b EXCEPT !.hard = v.hard,
                       !.log = b.log \o v.logged,
                       !.outcome = Append(b.outcome, v.err),
                       !.returned = Append(b.returned, Returned(v))]
        ELSE IF v.ts \in b.seen_ts
        THEN [b EXCEPT !.hard = TRUE,
                       !.log = Append(b.log, DbError(symbol, "LOAD", "DuplicateTimestamp", 1)),
                       !.outcome = Append(b.outcome, "DuplicateTimestamp"),
                       !.returned = Append(b.returned, Returned(v))]
        ELSE [b EXCEPT !.hard = v.hard,
                       !.seen_ts = b.seen_ts \cup {v.ts},
                       !.last_ts = v.ts,
                       !.rows = Append(b.rows, RowTuple(v.ts, v.parsed)),
                       !.outcome = Append(b.outcome, "Accepted"),
                       !.returned = Append(b.returned, Returned(v))]

\* list.sort(key=lambda x: x[0]): stable, ascending by timestamp
RECURSIVE InsertSorted(_, _)
InsertSorted(x, sorted) ==
    IF sorted = << >> THEN <<x>>
    ELSE IF x.ts < Head(sorted).ts THEN <<x>> \o sorted
    ELSE <<Head(sorted)>> \o InsertSorted(x, Tail(sorted))

\* variant: rows are returned in arrival order
SortRowsArrivalOrder(rs) == rs

RECURSIVE SortRows(_)
SortRows(rs) ==
    IF rs = << >> THEN << >>
    ELSE InsertSorted(rs[Len(rs)], SortRows(SubSeq(rs, 1, Len(rs) - 1)))

(***************************************************************************)
(* The raw records an API response is made of                              *)
(***************************************************************************)
RawRow(d, o, h, l, c, v) ==
    [date |-> d, open |-> o, high |-> h, low |-> l, close |-> c, volume |-> v]

DateValues ==
    {None, Str("  "), Str("2026-01-26T10:15:00"),
     Str("2026-01-26 10:05:00"), Str("2026-01-26 10:10:00")}

\* <<open, high, low, close, volume>>
FieldProfiles ==
    { <<Num(1), Num(1), Num(1), Num(1), Num(1)>>,
      <<Str("2"), Num(1), Num(1), None, Str(" 2 ")>>,
      <<Num(2), Num(1), Num(1), Str("  "), Num(1)>>,
      <<Str("bad"), Num(1), Num(1), Num(1), Num(1)>>,
      <<Num(1), None, Num(1), Num(1), Num(1)>>,
      <<Num(1), Num(1), Bool(1), Num(1), Num(1)>>,
      <<Num(1), Num(1), Num(1), Str("bad"), Num(1)>>,
      <<Num(1), Num(1), Num(1), Num(1), Str("  ")>>,
      <<None, Str(""), None, Str("  "), None>> }

RawRecords ==
    {RawRow(d, p[1], p[2], p[3], p[4], p[5]) : d \in DateValues, p \in FieldProfiles}

\* _process_data_batch as a whole: the loop over data, then the sort;
\* x is the value of the locals after the iteration on the first record
RECURSIVE BatchFold(_, _, _, _)
BatchFold(b, data, symbol, now) ==
    IF data = << >> THEN b
    ELSE CHOOSE r \in {BatchFold(x, Tail(data), symbol, now) :
                          x \in {BatchStep(b, Head(data), symbol, now)}} : TRUE

_process_data_batch(data, symbol, now) ==
    CHOOSE r \in {[rows |-> SortRows(b.rows), log |-> b.log] :
                    b \in {BatchFold(BatchStart, data, symbol, now)}} : TRUE

(***************************************************************************)
(* Symbols and table names (db_utils.py); a string is a sequence of        *)
(* one-character strings                                                   *)
(***************************************************************************)
UpperChars == <<"A", "B", "C", "D", "E", "F", "G", "H", "I", "J", "K", "L", "M",
                "N", "O", "P", "Q", "R", "S", "T", "U", "V", "W", "X", "Y", "Z">>
LowerChars == <<"a", "b", "c", "d", "e", "f", "g", "h", "i", "j", "k", "l", "m",
                "n", "o", "p", "q", "r", "s", "t", "u", "v", "w", "x", "y", "z">>
DigitChars == <<"0", "1", "2", "3", "4", "5", "6", "7", "8", "9">>

\* the characters that re.sub(r"[^A-Za-z0-9]", "", sym) keeps
IsAlnum(c) ==
    \/ \E i \in 1..Len(UpperChars) : UpperChars[i] = c
    \/ \E i \in 1..Len(LowerChars) : LowerChars[i] = c
    \/ \E i \in 1..Len(DigitChars) : DigitChars[i] = c

\* str.lower() on one character
LowerChar(c) ==
    IF \E i \in 1..Len(UpperChars) : UpperChars[i] = c
    THEN LowerChars[CHOOSE i \in 1..Len(UpperChars) : UpperChars[i] = c]
    ELSE c

\* variant: the name keeps the case of the symbol (no lower())
safe_table_name_keeps_case(s) ==
    LET kept == SelectSeq(s, IsAlnum)
    IN  IF kept = << >> THEN << >>
        ELSE <<"m", "a", "r", "k", "e", "t", ".">> \o kept

\* the empty string stands for the ValueError of a symbol with no valid character
safe_table_name_for_symbol(sym) ==
    LET kept == SelectSeq(sym, IsAlnum)
        base == [i \in 1..Len(kept) |-> LowerChar(kept[i])]
    IN  IF base = << >> THEN << >>
        ELSE <<"m", "a", "r", "k", "e", "t", ".">> \o base

AAPL == <<"A", "A", "P", "L">>
TNX == <<"^", "T", "N", "X">>
DOLLARS == <<"$", "$", "$">>

SymbolUniverse == {AAPL, TNX, DOLLARS}

\* the tables a symbol of the universe can map to
TableNames == {safe_table_name_for_symbol(y) : y \in SymbolUniverse} \ {<< >>}

(***************************************************************************)
(* The store: PostgreSQL tables keyed by date                              *)
(***************************************************************************)
\* variant: plain INSERT, a row is added whatever the table holds
InsertRow(tbl, r) == tbl \cup {r}

\* INSERT ... ON CONFLICT (date) DO UPDATE SET open, high, low, close, volume
UpsertRow(tbl, r) == {x \in tbl : x.ts # r.ts} \cup {r}

\* the status of the connection after a statement of the transaction failed
\* on the server: the transaction is aborted until a rollback
StatusAfterStatementError == "inerror"

MARKET_OPEN == 240
MARKET_CLOSE == 1260

\* weekday is 0 (Monday) .. 6 (Sunday)
is_market_open(now, weekday) ==
    IF weekday >= 5 THEN FALSE
    ELSE MARKET_OPEN <= now /\ now <= MARKET_CLOSE

(***************************************************************************)
(* Inputs of the model                                                     *)
(***************************************************************************)
\* wall-clock readings of dt.datetime.now(TZ) at the start of a run
NowValues == {603, 612}

\* the symbol the batch processor is called for in SpecBatch
BatchSymbol == AAPL

GoodRow(d, o) == RawRow(d, Num(o), Num(1), Num(1), Num(1), Num(1))

\* the API responses of the model
FeedBatches ==
    { <<GoodRow(Str("2026-01-26 10:10:00"), 1), GoodRow(Str("2026-01-26 10:05:00"), 2)>>,
      <<GoodRow(None, 1)>>,
      <<RawRow(Str("2026-01-26 10:05:00"), Str("bad"), Num(1), Num(1), Num(1), Num(1))>> }

\* the symbol lists of the model
MaxSymbols == 2

\* the longest symbol list of a run that is repeated
MaxRerunSymbols == 1

SymbolLists ==
    UNION {[1..n -> SymbolUniverse] : n \in 1..MaxSymbols}

\* the rows stored before the first run
OldRow(ts) == [ts |-> ts, open |-> 3, high |-> 3, low |-> 3, close |-> 3, volume |-> 3]

InitialStore ==
    [t \in TableNames |->
        IF t = safe_table_name_for_symbol(AAPL) THEN {OldRow(605), OldRow(700)} ELSE {}]

\* the source has not been asked about the symbol yet
Unfetched == [known |-> FALSE, data |-> << >>]

VARIABLES bpc, idx, row, hard_invalid_found, rows, last_ts, seen_ts, log,
          now_local, outcome, returned,
          pc, symbols, sym_i, feed, tables, conn, store, txn, data, table,
          exec_i, total, attempts, result, exit_code, run, api_log,
          run_base, prev_result, calls, snap,
          api_key, fetch_log, win_now, win_min, win, sym, table_name,
          files, written, wpc, wrote

batch_vars == <<bpc, idx, row, hard_invalid_found, last_ts, seen_ts, outcome, returned>>

run_vars == <<pc, symbols, sym_i, feed, tables, conn, store, txn, data, table,
              exec_i, total, attempts, result, exit_code, run, api_log,
              run_base, prev_result, calls, snap>>

\* the inputs and results of the pure functions checked on their own
pure_vars == <<win_now, win_min, win, sym, table_name>>

\* the diagnostics log files and, per file, the rows written in call order
file_vars == <<files, written>>

\* the position of each concurrent writer in its logging call and the
\* number of records it has appended
writer_vars == <<wpc, wrote>>

ext_vars == <<api_key, fetch_log, win_now, win_min, win, sym, table_name,
              files, written, wpc, wrote>>

vars == <<bpc, idx, row, hard_invalid_found, rows, last_ts, seen_ts, log,
          now_local, outcome, returned,
          pc, symbols, sym_i, feed, tables, conn, store, txn, data, table,
          exec_i, total, attempts, result, exit_code, run, api_log,
          run_base, prev_result, calls, snap,
          api_key, fetch_log, win_now, win_min, win, sym, table_name,
          files, written, wpc, wrote>>

\* the values of FMP_API_KEY: unset or set
ApiKeys == {<< >>, <<"k">>}

\* the three files of ERROR_LOG_DIR
LogFiles == {"api_errors.csv", "data_errors.csv", "db_insert_errors.csv"}

\* a path at which no file exists
AbsentFile == [exists |-> FALSE, lines |-> << >>]

\* compute_window has not been called
NoWindow == [start |-> -1, end |-> -1]

\* safe_table_name_for_symbol has not been called
NoName == <<"?">>

PureIdle ==
    /\ win_now = 0
    /\ win_min = 0
    /\ win = NoWindow
    /\ sym = << >>
    /\ table_name = NoName

\* the concurrent writers of a log file
MaxWriters == 2

Writers == 1..MaxWriters

FilesIdle ==
    /\ files = [f \in LogFiles |-> AbsentFile]
    /\ written = [f \in LogFiles |-> << >>]
    /\ wpc = [w \in Writers |-> "idle"]
    /\ wrote = [w \in Writers |-> 0]

\* no fetch audit line written, no pure function under test, no log file
ExtIdle ==
    /\ fetch_log = << >>
    /\ PureIdle
    /\ FilesIdle

(***************************************************************************)
(* SpecBatch: one call of _process_data_batch, record by record            *)
(***************************************************************************)
\* the locals of the running _process_data_batch as one record
Cur ==
    [hard |-> hard_invalid_found, rows |-> rows, last_ts |-> last_ts,
     seen_ts |-> seen_ts, log |-> log, outcome |-> outcome,
     returned |-> returned]

\* the loop variable before the first iteration
NoRow == RawRow(None, None, None, None, None, None)

\* the batch processor is not running
BatchIdle ==
    /\ bpc = "idle"
    /\ idx = 0
    /\ row = NoRow
    /\ hard_invalid_found = FALSE
    /\ last_ts = NoTs
    /\ seen_ts = {}
    /\ outcome = << >>
    /\ returned = << >>

\* no run of main is in progress
RunIdle ==
    /\ pc = "idle"
    /\ symbols = << >>
    /\ sym_i = 0
    /\ feed = [y \in SymbolUniverse |-> Unfetched]
    /\ tables = {}
    /\ conn = "none"
    /\ store = InitialStore
    /\ txn = InitialStore
    /\ data = << >>
    /\ table = << >>
    /\ exec_i = 0
    /\ total = 0
    /\ attempts = << >>
    /\ result = << >>
    /\ exit_code = -1
    /\ run = 0
    /\ api_log = << >>
    /\ run_base = InitialStore
    /\ prev_result = << >>
    /\ calls = 0
    /\ snap = {}

InitBatch ==
    /\ bpc = "loop"
    /\ idx = 0
    /\ hard_invalid_found = BatchStart.hard
    /\ rows = BatchStart.rows
    /\ last_ts = BatchStart.last_ts
    /\ seen_ts = BatchStart.seen_ts
    /\ log = BatchStart.log
    /\ outcome = BatchStart.outcome
    /\ returned = BatchStart.returned
    /\ row = NoRow
    /\ now_local \in NowValues
    /\ RunIdle
    /\ api_key = <<"k">>
    /\ ExtIdle

\* one iteration of the loop over data, on the record r
ProcessRow(r) ==
    /\ bpc = "loop"
    /\ idx < MaxBatch
    /\ row' = r
    /\ LET b == BatchStep(Cur, r, BatchSymbol, now_local)
       IN  /\ hard_invalid_found' = b.hard
           /\ rows' = b.rows
           /\ last_ts' = b.last_ts
           /\ seen_ts' = b.seen_ts
           /\ log' = b.log
           /\ outcome' = b.outcome
           /\ returned' = b.returned
    /\ idx' = idx + 1
    /\ UNCHANGED <<bpc, now_local>>
    /\ UNCHANGED run_vars
    /\ UNCHANGED ext_vars

\* the end of data: rows.sort(...) and return rows
ReturnRows ==
    /\ bpc = "loop"
    /\ rows' = SortRows(rows)
    /\ bpc' = "done"
    /\ UNCHANGED <<idx, row, hard_invalid_found, last_ts, seen_ts, log,
                   now_local, outcome, returned>>
    /\ UNCHANGED run_vars
    /\ UNCHANGED ext_vars

NextBatch ==
    \/ \E r \in RawRecords : ProcessRow(r)
    \/ ReturnRows

SpecBatch == InitBatch /\ [][NextBatch]_vars

(***************************************************************************)
(* _insert_batch: table check, executemany row by row, commit              *)
(***************************************************************************)
\* the symbol of the current loop iteration
CurSym == symbols[sym_i]

\* variant: the connection commits every statement (autocommit)
CommittedAfterRowAutocommit(st, tx) == tx

\* the committed tables after one statement of executemany: unchanged
CommittedAfterRow(st, tx) == st

\* "if not rows: return 0"
InsertNothing ==
    /\ pc = "insert_check"
    /\ rows = << >>
    /\ pc' = "insert_returned"
    /\ UNCHANGED <<symbols, sym_i, feed, tables, conn, store, txn, data, table,
                   exec_i, total, attempts, result, exit_code, run, api_log,
                   run_base, prev_result, calls, snap>>
    /\ UNCHANGED <<rows, log, now_local>>
    /\ UNCHANGED batch_vars
    /\ UNCHANGED ext_vars

\* dbu.check_table_exists(conn, table): the SELECT opens a transaction; it
\* raises InFailedSqlTransaction on an aborted transaction and RuntimeError
\* for a missing table; neither is logged
CheckTable ==
    /\ pc = "insert_check"
    /\ rows # << >>
    /\ IF conn = "inerror"
       THEN /\ result' = Append(result, "TransactionAborted")
            /\ pc' = "except"
            /\ UNCHANGED <<conn, exec_i>>
       ELSE /\ conn' = "intrans"
            /\ IF table \in tables
               THEN /\ pc' = "insert_exec"
                    /\ exec_i' = 0
                    /\ UNCHANGED result
               ELSE /\ result' = Append(result, "MissingTable")
                    /\ pc' = "except"
                    /\ UNCHANGED exec_i
    /\ UNCHANGED <<symbols, sym_i, feed, tables, store, txn, data, table,
                   total, attempts, exit_code, run, api_log,
                   run_base, prev_result, calls, snap>>
    /\ UNCHANGED <<rows, log, now_local>>
    /\ UNCHANGED batch_vars
    /\ UNCHANGED ext_vars

\* one statement of cur.executemany(insert_sql, rows) succeeds
ExecuteRow ==
    /\ pc = "insert_exec"
    /\ exec_i < Len(rows)
    /\ txn' = [txn EXCEPT ![table] = UpsertRow(@, rows[exec_i + 1])]
    /\ store' = CommittedAfterRow(store, txn')
    /\ exec_i' = exec_i + 1
    /\ UNCHANGED <<pc, symbols, sym_i, feed, tables, conn, data, table,
                   total, attempts, result, exit_code, run, api_log,
                   run_base, prev_result, calls, snap>>
    /\ UNCHANGED <<rows, log, now_local>>
    /\ UNCHANGED batch_vars
    /\ UNCHANGED ext_vars

\* one statement of executemany fails on the server with a psycopg.Error:
\* the error is logged with the batch size and raised again; there is no
\* rollback, so the transaction stays aborted
ExecuteRowFails ==
    /\ pc = "insert_exec"
    /\ exec_i < Len(rows)
    /\ conn' = StatusAfterStatementError
    /\ log' = Append(log, DbError(IF sym_i \in 1..Len(symbols) THEN CurSym ELSE BatchSymbol,
                                  "UPSERT", "psycopg.Error", Len(rows)))
    /\ result' = Append(result, "UpsertError")
    /\ pc' = "except"
    /\ UNCHANGED <<symbols, sym_i, feed, tables, store, txn, data, table,
                   exec_i, total, attempts, exit_code, run, api_log,
                   run_base, prev_result, calls, snap>>
    /\ UNCHANGED <<rows, now_local>>
    /\ UNCHANGED batch_vars
    /\ UNCHANGED ext_vars

\* conn.commit() after the last statement
Commit ==
    /\ pc = "insert_exec"
    /\ exec_i = Len(rows)
    /\ IF conn = "intrans"
       THEN store' = txn /\ UNCHANGED txn
       ELSE txn' = store /\ UNCHANGED store
    /\ conn' = "idle"
    /\ pc' = "insert_returned"
    /\ UNCHANGED <<symbols, sym_i, feed, tables, data, table,
                   exec_i, total, attempts, result, exit_code, run, api_log,
                   run_base, prev_result, calls, snap>>
    /\ UNCHANGED <<rows, log, now_local>>
    /\ UNCHANGED batch_vars
    /\ UNCHANGED ext_vars

(***************************************************************************)
(* main: startup checks, connection, the loop over SYMBOLS, close          *)
(***************************************************************************)
\* variant: the first failing symbol ends the loop (break)
NextSymbolAfterErrorBreak(i) == Len(symbols) + 1

\* "except Exception as e: print(...)": the loop goes on with the next symbol
NextSymbolAfterError(i) == i + 1

InitRun ==
    /\ BatchIdle
    /\ rows = << >>
    /\ log = << >>
    /\ now_local = 0
    /\ pc = "startup"
    /\ symbols \in SymbolLists
    /\ sym_i = 0
    /\ feed = [y \in SymbolUniverse |-> Unfetched]
    /\ tables \in SUBSET TableNames
    /\ conn = "none"
    /\ store = InitialStore
    /\ txn = InitialStore
    /\ data = << >>
    /\ table = << >>
    /\ exec_i = 0
    /\ total = 0
    /\ attempts = << >>
    /\ result = << >>
    /\ exit_code = -1
    /\ run = 1
    /\ api_log = << >>
    /\ run_base = InitialStore
    /\ prev_result = << >>
    /\ calls = 0
    /\ snap = {}
    /\ api_key \in ApiKeys
    /\ ExtIdle

\* main up to the connection attempt: the clock is read, then the market
\* hours and the API key are checked
Startup ==
    /\ pc = "startup"
    /\ \E now \in NowValues, weekday \in {0, 5} :
         /\ now > now_local
         /\ now_local' = now
         /\ IF ~is_market_open(now, weekday)
            THEN pc' = "exit" /\ exit_code' = 0
            ELSE IF api_key = << >>
            THEN pc' = "exit" /\ exit_code' = 1
            ELSE pc' = "connect" /\ UNCHANGED exit_code
    /\ UNCHANGED <<symbols, sym_i, feed, tables, conn, store, txn, data, table,
                   exec_i, total, attempts, result, run, api_log,
                   run_base, prev_result, calls, snap>>
    /\ UNCHANGED <<rows, log>>
    /\ UNCHANGED batch_vars
    /\ UNCHANGED ext_vars

\* dbu.db_connect: one connection for the run, or exit code 2
Connect ==
    /\ pc = "connect"
    /\ \E ok \in BOOLEAN :
         IF ok
         THEN /\ conn' = "idle"
              /\ pc' = "loop"
              /\ sym_i' = 1
              /\ total' = 0
              /\ UNCHANGED <<log, exit_code>>
         ELSE /\ log' = Append(log, DbError(<<"N", "/", "A">>, "CONNECT", "Exception", NULL))
              /\ pc' = "exit"
              /\ exit_code' = 2
              /\ UNCHANGED <<conn, sym_i, total>>
    /\ UNCHANGED <<symbols, feed, tables, store, txn, data, table,
                   exec_i, attempts, result, run, api_log,
                   run_base, prev_result, calls, snap>>
    /\ UNCHANGED <<rows, now_local>>
    /\ UNCHANGED batch_vars
    /\ UNCHANGED ext_vars

\* the exceptions requests.get and raise_for_status raise, by class name
RequestExceptions == {"HTTPError", "ReadTimeout", "ConnectionError"}

\* the subclasses of requests.exceptions.Timeout
TimeoutClasses == {"Timeout", "ReadTimeout", "ConnectTimeout"}

\* variant: every exception is logged under its own class name
api_error_type_by_name(exc) == exc

\* the error_type _fetch_api_data logs: the first except clause that matches
api_error_type(exc) ==
    IF exc = "HTTPError" THEN "HTTPError"
    ELSE IF exc \in TimeoutClasses THEN "Timeout"
    ELSE exc

\* _fetch_api_data raises: the error is logged to api_errors.csv with the
\* text of the exception, and raised again
FetchFails ==
    /\ pc = "loop"
    /\ sym_i <= Len(symbols)
    /\ \E exc \in RequestExceptions :
         api_log' = Append(api_log, [symbol |-> CurSym,
                                     error_type |-> api_error_type(exc),
                                     error_message |-> exc])
    /\ attempts' = Append(attempts, CurSym)
    /\ result' = Append(result, "FetchError")
    /\ pc' = "except"
    /\ UNCHANGED <<symbols, sym_i, feed, tables, conn, store, txn, data, table,
                   exec_i, total, exit_code, run,
                   run_base, prev_result, calls, snap>>
    /\ UNCHANGED <<rows, log, now_local>>
    /\ UNCHANGED batch_vars
    /\ UNCHANGED ext_vars

\* _fetch_api_data returns the records the source holds for the symbol
FetchOk ==
    /\ pc = "loop"
    /\ sym_i <= Len(symbols)
    /\ \E d \in (IF feed[CurSym].known THEN {feed[CurSym].data} ELSE FeedBatches) :
         /\ data' = d
         /\ feed' = [feed EXCEPT ![CurSym] = [known |-> TRUE, data |-> d]]
    /\ attempts' = Append(attempts, CurSym)
    /\ pc' = "prepare"
    /\ UNCHANGED <<symbols, sym_i, tables, conn, store, txn, table,
                   exec_i, total, result, exit_code, run, api_log,
                   run_base, prev_result, calls, snap>>
    /\ UNCHANGED <<rows, log, now_local>>
    /\ UNCHANGED batch_vars
    /\ UNCHANGED ext_vars

\* variant: _insert_batch is called whatever survived
has_rows_always(rs) == TRUE

\* "if rows:" in the loop body of main
has_rows(rs) == rs # << >>

\* steps 2 and 3 of the loop body: table name, then _process_data_batch;
\* with no surviving row the iteration ends here
Prepare ==
    /\ pc = "prepare"
    /\ \E t \in {safe_table_name_for_symbol(CurSym)},
          r \in {_process_data_batch(data, CurSym, now_local)} :
           IF t = << >>
           THEN /\ result' = Append(result, "InvalidSymbol")
                /\ pc' = "except"
                /\ UNCHANGED <<table, rows, log, sym_i>>
           ELSE /\ table' = t
                /\ rows' = r.rows
                /\ log' = log \o r.log
                /\ IF ~has_rows(r.rows)
                   THEN /\ result' = Append(result, "NoRows")
                        /\ pc' = "loop"
                        /\ sym_i' = sym_i + 1
                   ELSE /\ pc' = "insert_check"
                        /\ UNCHANGED <<result, sym_i>>
    /\ UNCHANGED <<symbols, feed, tables, conn, store, txn, data,
                   exec_i, total, attempts, exit_code, run, api_log,
                   run_base, prev_result, calls, snap>>
    /\ UNCHANGED now_local
    /\ UNCHANGED batch_vars
    /\ UNCHANGED ext_vars

\* variant: the count of the last batch replaces the total (= instead of +=)
TotalAfterInsertAssign(t, n) == n

\* "total += _insert_batch(...)", which returns len(rows)
TotalAfterInsert(t, n) == t + n

\* "total += _insert_batch(...)" when _insert_batch returns
InsertReturned ==
    /\ pc = "insert_returned"
    /\ total' = TotalAfterInsert(total, Len(rows))
    /\ result' = Append(result, "Done")
    /\ sym_i' = sym_i + 1
    /\ pc' = "loop"
    /\ UNCHANGED <<symbols, feed, tables, conn, store, txn, data, table,
                   exec_i, attempts, exit_code, run, api_log,
                   run_base, prev_result, calls, snap>>
    /\ UNCHANGED <<rows, log, now_local>>
    /\ UNCHANGED batch_vars
    /\ UNCHANGED ext_vars

\* the except clause of the loop body
ExceptHandler ==
    /\ pc = "except"
    /\ sym_i' = NextSymbolAfterError(sym_i)
    /\ pc' = "loop"
    /\ UNCHANGED <<symbols, feed, tables, conn, store, txn, data, table,
                   exec_i, total, attempts, result, exit_code, run, api_log,
                   run_base, prev_result, calls, snap>>
    /\ UNCHANGED <<rows, log, now_local>>
    /\ UNCHANGED batch_vars
    /\ UNCHANGED ext_vars

\* variant: the connection is closed only when no transaction has failed
ConnAfterCloseUnlessFailed(c) == IF c = "inerror" THEN c ELSE "closed"

\* the state of the connection after conn.close() at the end of main
ConnAfterClose(c) == "closed"

\* after the loop: conn.close() discards an open transaction; main returns
CloseConn ==
    /\ pc = "loop"
    /\ sym_i > Len(symbols)
    /\ conn' = ConnAfterClose(conn)
    /\ txn' = store
    /\ pc' = "exit"
    /\ exit_code' = 0
    /\ UNCHANGED <<symbols, sym_i, feed, tables, store, data, table,
                   exec_i, total, attempts, result, run, api_log,
                   run_base, prev_result, calls, snap>>
    /\ UNCHANGED <<rows, log, now_local>>
    /\ UNCHANGED batch_vars
    /\ UNCHANGED ext_vars

\* the scheduler starts main again later: same symbols, same store, same
\* records at the source, a later clock
NextRun ==
    /\ pc = "exit"
    /\ \E now \in NowValues : now > now_local
    /\ pc' = "startup"
    /\ run' = run + 1
    /\ prev_result' = IF exit_code = 0 /\ conn = "closed" THEN result ELSE << >>
    /\ run_base' = store
    /\ result' = << >>
    /\ attempts' = << >>
    /\ total' = 0
    /\ sym_i' = 0
    /\ conn' = "none"
    /\ exit_code' = -1
    /\ rows' = << >>
    /\ data' = << >>
    /\ table' = << >>
    /\ exec_i' = 0
    /\ UNCHANGED <<symbols, feed, tables, store, txn, api_log, calls, snap>>
    /\ UNCHANGED <<log, now_local>>
    /\ UNCHANGED batch_vars
    /\ UNCHANGED ext_vars

\* one run of main
NextMain ==
    \/ Startup
    \/ Connect
    \/ FetchFails
    \/ FetchOk
    \/ Prepare
    \/ CheckTable
    \/ ExecuteRow
    \/ ExecuteRowFails
    \/ Commit
    \/ InsertReturned
    \/ ExceptHandler
    \/ CloseConn

SpecRun == InitRun /\ [][NextMain]_vars

\* one run of main that is not suspended for ever: every call it makes
\* returns or raises (the fetch carries a timeout), so a step is taken
\* whenever one is possible
SpecRunFair == SpecRun /\ WF_vars(NextMain)

(***************************************************************************)
(* SpecRerun: main run again by the scheduler on the same source records   *)
(***************************************************************************)
InitRerun ==
    /\ InitRun
    /\ Len(symbols) <= MaxRerunSymbols

NextRerun ==
    \/ NextMain
    \/ NextRun

SpecRerun == InitRerun /\ [][NextRerun]_vars

(***************************************************************************)
(* SpecUpsert: _insert_batch called repeatedly with one validated batch    *)
(***************************************************************************)
MaxCalls == 2

\* the validated batches: what _process_data_batch returns for the responses
UpsertBatches ==
    {_process_data_batch(d, AAPL, now).rows : d \in FeedBatches, now \in NowValues}

\* the contents of the symbol's table before the first call
UpsertStores ==
    {[t \in TableNames |-> IF t = safe_table_name_for_symbol(AAPL) THEN old ELSE {}] :
        old \in {{}, {OldRow(605), OldRow(700)}, {OldRow(600), OldRow(610), OldRow(700)}}}

InitUpsert ==
    /\ BatchIdle
    /\ log = << >>
    /\ now_local = 0
    /\ rows \in UpsertBatches
    /\ pc = "insert_check"
    /\ symbols = <<AAPL>>
    /\ sym_i = 1
    /\ feed = [y \in SymbolUniverse |-> Unfetched]
    /\ tables \in SUBSET TableNames
    /\ conn = "idle"
    /\ store \in UpsertStores
    /\ txn = store
    /\ data = << >>
    /\ table = safe_table_name_for_symbol(AAPL)
    /\ exec_i = 0
    /\ total = 0
    /\ attempts = << >>
    /\ result = << >>
    /\ exit_code = -1
    /\ run = 1
    /\ api_log = << >>
    /\ run_base = store
    /\ prev_result = << >>
    /\ calls = 1
    /\ snap = {}
    /\ api_key = <<"k">>
    /\ ExtIdle

\* _insert_batch has returned and is called again with the same arguments;
\* snap keeps the table as the first call left it
UpsertAgain ==
    /\ pc = "insert_returned"
    /\ calls < MaxCalls
    /\ calls' = calls + 1
    /\ snap' = IF calls = 1 THEN store[table] ELSE snap
    /\ pc' = "insert_check"
    /\ UNCHANGED <<symbols, sym_i, feed, tables, conn, store, txn, data, table,
                   exec_i, total, attempts, result, exit_code, run, api_log,
                   run_base, prev_result>>
    /\ UNCHANGED <<rows, log, now_local>>
    /\ UNCHANGED batch_vars
    /\ UNCHANGED ext_vars

NextUpsert ==
    \/ InsertNothing
    \/ CheckTable
    \/ ExecuteRow
    \/ ExecuteRowFails
    \/ Commit
    \/ UpsertAgain

SpecUpsert == InitUpsert /\ [][NextUpsert]_vars

(***************************************************************************)
(* Properties of the batch processor (checked under SpecBatch)             *)
(***************************************************************************)
RejectionKinds ==
    {"AllFieldsEmpty", "MissingDate", "InvalidTimestamp",
     "SchemaTypeMismatch", "DuplicateTimestamp"}

\* positions of the input whose record had the given outcome
WithOutcome(kinds) == {i \in 1..Len(outcome) : outcome[i] \in kinds}

\* positions of the input whose record resolved to timestamp t
ResolvedTo(t) == {i \in 1..Len(returned) : returned[i].ts = t}

\* a raw value that is absent, null or a whitespace-only string
Blankish(value) ==
    value.k = "none" \/ (value.k = "str" /\ value.s \in {"", " ", "  "})

AllBlank(r) == \A f \in {"date", "open", "high", "low", "close", "volume"} : Blankish(r[f])

\* a raw value that is a number or a string spelling one
Coercible(value) ==
    value.k = "num" \/ (value.k = "str" /\ FloatOfStr(value.s) # -1)

NumberOf(value) == IF value.k = "num" THEN value.n ELSE FloatOfStr(value.s)

\* C1: among the records of a batch that resolve to the same timestamp,
\* exactly one is accepted, the first by arrival; its values are the ones
\* stored for that timestamp (no merge by latest value), and every other
\* one is logged as DuplicateTimestamp.
C1_FirstOccurrenceWins ==
    /\ \A i \in 1..Len(returned) :
         returned[i].ts # NoTs =>
           LET t == returned[i].ts
               first == CHOOSE j \in ResolvedTo(t) : \A k \in ResolvedTo(t) : j <= k
           IN  /\ outcome[first] = "Accepted"
               /\ \A j \in ResolvedTo(t) \ {first} : outcome[j] = "DuplicateTimestamp"
               /\ Cardinality({k \in 1..Len(rows) : rows[k].ts = t}) = 1
               /\ \A k \in 1..Len(rows) :
                    rows[k].ts = t => rows[k] = RowTuple(t, returned[first].parsed)
    /\ Cardinality({k \in 1..Len(log) : log[k].error_type = "DuplicateTimestamp"})
         = Cardinality(WithOutcome({"DuplicateTimestamp"}))

\* two records with different values resolved to the same timestamp
C1_Witness ==
    /\ bpc = "done"
    /\ \E i, j \in 1..Len(returned) :
         /\ i < j
         /\ returned[i].ts # NoTs
         /\ returned[i].ts = returned[j].ts
         /\ returned[i].parsed # returned[j].parsed

\* C2: the list returned by _process_data_batch is strictly ascending by
\* timestamp (sorted, no timestamp twice), so sorting it again changes nothing.
C2_ReturnedRowsStrictlyAscending ==
    bpc = "done" =>
        /\ \A k \in 1..(Len(rows) - 1) : rows[k].ts < rows[k + 1].ts
        /\ SortRows(rows) = rows

\* two records were accepted in descending order of timestamp, then returned
C2_Witness ==
    /\ bpc = "done"
    /\ \E i, j \in WithOutcome({"Accepted"}) : i < j /\ returned[i].ts > returned[j].ts
    /\ WithOutcome(RejectionKinds) # {}

\* C5: every record of the batch has exactly one outcome: it is one row of
\* the output or it has exactly one diagnostics entry of one of the five
\* kinds; rows + entries = records consumed.
C5_EveryRecordOneOutcome ==
    /\ Len(outcome) = idx
    /\ \A i \in 1..idx : outcome[i] \in RejectionKinds \cup {"Accepted"}
    /\ Len(rows) = Cardinality(WithOutcome({"Accepted"}))
    /\ Len(log) = Cardinality(WithOutcome(RejectionKinds))
    /\ Len(rows) + Len(log) = idx
    /\ \A k \in 1..Len(log) :
         /\ log[k].error_type \in RejectionKinds
         /\ log[k].operation = "LOAD"
         /\ log[k].row_count = 1
    /\ [k \in 1..Len(log) |-> log[k].error_type]
         = SelectSeq(outcome, LAMBDA o : o # "Accepted")

\* a record was rejected and a later record of the same batch was accepted
C5_Witness ==
    \E i, j \in 1..idx :
        i < j /\ outcome[i] \in RejectionKinds /\ outcome[j] = "Accepted"

\* C6: an iteration on a record whose six fields are all absent, null or
\* whitespace-only appends exactly one AllFieldsEmpty line, infers no
\* timestamp, parses no field and accepts no bar.
C6_AllFieldsEmptyRejected ==
    [][(idx' = idx + 1 /\ AllBlank(row')) =>
          /\ log' = Append(log, DbError(BatchSymbol, "LOAD", "AllFieldsEmpty", 1))
          /\ outcome' = Append(outcome, "AllFieldsEmpty")
          /\ returned' = Append(returned,
                 [ts |-> NoTs, parsed |-> NoParsed, inferred |-> FALSE])
          /\ rows' = rows
          /\ seen_ts' = seen_ts
          /\ last_ts' = last_ts]_vars

\* an all-empty record (with a whitespace-only field) was processed before
\* any other record was rejected
C6_Witness ==
    /\ idx > 0
    /\ AllBlank(row)
    /\ \E f \in {"date", "open", "high", "low", "close", "volume"} : row[f].k = "str"
    /\ outcome[idx] = "AllFieldsEmpty"
    /\ Len(log) = 1

\* the timestamp the record r resolves to in the current state of the loop
ExpectedTs(r) ==
    IF Blankish(r.date)
    THEN (IF last_ts # NoTs THEN last_ts + 5 ELSE now_local - (now_local % 5))
    ELSE StrpTime(r.date.s)

\* r is not all-empty and its timestamp resolves in the current state
Resolves(r) ==
    /\ ~AllBlank(r)
    /\ IF Blankish(r.date) THEN ~hard_invalid_found
       ELSE r.date.k = "str" /\ StrpTime(r.date.s) # NoTs

FieldsAcceptable(r) ==
    /\ \A f \in {"open", "high", "low", "volume"} : ~Blankish(r[f]) /\ Coercible(r[f])
    /\ Blankish(r.close) \/ Coercible(r.close)

\* C7: a record that is not all-empty and resolves to a timestamp not yet
\* seen is accepted iff open, high, low, volume are present and coercible
\* and close is empty or coercible; an empty close is stored as null;
\* otherwise the record is rejected as SchemaTypeMismatch.
C7_AcceptancePredicate ==
    [][(idx' = idx + 1 /\ Resolves(row') /\ ExpectedTs(row') \notin seen_ts) =>
          IF FieldsAcceptable(row')
          THEN /\ outcome' = Append(outcome, "Accepted")
               /\ log' = log
               /\ rows' = Append(rows,
                     [ts |-> ExpectedTs(row'),
                      open |-> NumberOf(row'.open),
                      high |-> NumberOf(row'.high),
                      low |-> NumberOf(row'.low),
                      close |-> IF Blankish(row'.close) THEN NULL
                                ELSE NumberOf(row'.close),
                      volume |-> NumberOf(row'.volume)])
          ELSE /\ outcome' = Append(outcome, "SchemaTypeMismatch")
               /\ log' = Append(log, DbError(BatchSymbol, "LOAD", "SchemaTypeMismatch", 1))
               /\ rows' = rows]_vars

\* a record with an empty close was accepted and carries close = null
C7_Witness ==
    /\ bpc = "loop"
    /\ idx > 0
    /\ outcome[idx] = "Accepted"
    /\ Blankish(row.close)
    /\ rows[Len(rows)].close = NULL
    /\ rows[Len(rows)].open = 2

(***************************************************************************)
(* Properties of the store and of a run                                    *)
(***************************************************************************)
\* the timestamps and the rows of the batch handed to _insert_batch
BatchTs == {rows[k].ts : k \in 1..Len(rows)}
BatchRows == {rows[k] : k \in 1..Len(rows)}

\* C3: upserting the same validated batch twice leaves the table as
\* upserting it once did: the batch rows at the batch timestamps, every
\* other row unchanged, no timestamp stored twice.
C3_UpsertIdempotent ==
    pc = "insert_returned" =>
        /\ store[table] = {x \in run_base[table] : x.ts \notin BatchTs} \cup BatchRows
        /\ \A x, y \in store[table] : x.ts = y.ts => x = y
        /\ calls >= 2 => store[table] = snap
        /\ \A t \in TableNames \ {table} : store[t] = run_base[t]

\* the second upsert of a two-row batch has returned; the table held a row
\* at a batch timestamp with other values and a row at another timestamp
C3_Witness ==
    /\ pc = "insert_returned"
    /\ calls = 2
    /\ Len(rows) >= 2
    /\ \E x \in run_base[table] : \E r \in BatchRows : x.ts = r.ts /\ x # r
    /\ \E x \in run_base[table] : x.ts \notin BatchTs

\* the table of the i-th symbol of the list
TableOf(i) == safe_table_name_for_symbol(symbols[i])

\* C4: a later run on the same raw records leaves the store as the first
\* run left it (for every symbol that both runs stored).
C4_RerunLeavesStoreUnchanged ==
    (pc = "exit" /\ conn = "closed" /\ run >= 2) =>
        \A i \in 1..Len(result) :
            (i <= Len(prev_result) /\ prev_result[i] = "Done" /\ result[i] = "Done")
                => store[TableOf(i)] = run_base[TableOf(i)]

Failures ==
    {"FetchError", "InvalidSymbol", "MissingTable", "UpsertError", "TransactionAborted"}

\* C8: the run attempts the symbols of the list once each, in list order,
\* whatever fails for a symbol, and ends normally.
C8_EverySymbolAttempted ==
    /\ Len(attempts) <= Len(symbols)
    /\ attempts = SubSeq(symbols, 1, Len(attempts))
    /\ pc = "loop" => Len(attempts) = sym_i - 1
    /\ (pc = "exit" /\ conn = "closed") => attempts = symbols /\ exit_code = 0
    /\ Len(attempts) > 0 => exit_code \in {-1, 0}

\* a run ended after its first symbol failed and a later one was attempted
C8_Witness ==
    /\ pc = "exit"
    /\ conn = "closed"
    /\ Len(symbols) >= 2
    /\ result[1] \in Failures
    /\ attempts = symbols

\* the surviving rows of the batch of symbol y in this run
RowsOfSymbol(y) == _process_data_batch(feed[y].data, y, now_local).rows

\* C9: after a storage failure during one symbol's upsert, a later symbol
\* with surviving rows and an existing table, whose own fetch and statements
\* do not fail, is upserted and committed.
C9_LaterSymbolCommitted ==
    \A j \in 1..Len(result) :
        ( /\ \E i \in 1..(j - 1) : result[i] = "UpsertError" /\ symbols[i] # symbols[j]
          /\ result[j] \notin {"FetchError", "UpsertError"}
          /\ TableOf(j) \in tables
          /\ RowsOfSymbol(symbols[j]) # << >> )
        => result[j] = "Done"

RECURSIVE UpsertAll(_, _)
UpsertAll(tbl, rs) ==
    IF rs = << >> THEN tbl ELSE UpsertAll(UpsertRow(tbl, Head(rs)), Tail(rs))

\* the positions of the list whose upsert has been committed in this run
CommittedSymbols ==
    {i \in 1..Len(result) : result[i] = "Done"}
    \cup (IF pc = "insert_returned" THEN {sym_i} ELSE {})

\* C10: at every point of a run the committed contents of a table are what
\* the run found, or that with all surviving rows of a committed symbol's
\* batch; rows executed before a failure are never committed.
C10_CommitAllOrNothing ==
    \A t \in TableNames :
        \/ store[t] = run_base[t]
        \/ \E i \in CommittedSymbols :
             /\ TableOf(i) = t
             /\ store[t] = UpsertAll(run_base[t], RowsOfSymbol(symbols[i]))

\* the loop has ended; the first symbol's upsert failed after a row had
\* been executed, a later symbol was attempted on the same connection, and
\* the executed row is still uncommitted
C10_Witness ==
    /\ pc = "loop"
    /\ sym_i > Len(symbols)
    /\ Len(result) >= 2
    /\ result[1] = "UpsertError"
    /\ txn[TableOf(1)] # store[TableOf(1)]
    /\ store[TableOf(1)] = run_base[TableOf(1)]


(***************************************************************************)
(* Properties of the connection and of the exits of a run                  *)
(***************************************************************************)
\* C11: the connection is acquired only by db_connect, once per run, and
\* never acquired again; it is closed only after the loop has handled every
\* symbol; after the close nothing touches the store or the source; and a
\* run that has acquired the connection eventually closes it, whatever the
\* outcomes of the symbols were.
C11_ConnectionOnceAndClosed ==
    /\ [][ /\ (conn = "none" /\ conn' # "none") => (pc = "connect" /\ conn' = "idle")
           /\ (conn # "none") => (conn' # "none")
           /\ (conn # "closed" /\ conn' = "closed") =>
                  (pc = "loop" /\ Len(result) = Len(symbols) /\ attempts = symbols)
           /\ (conn = "closed") => UNCHANGED <<conn, store, txn, attempts, result>> ]_vars
    /\ [](conn = "none" => (store = InitialStore /\ attempts = << >>))
    /\ [](conn # "none" => <>(conn = "closed"))

\* a run has closed the connection after one symbol failed in the store and
\* another symbol failed at the source
C11_Witness ==
    /\ pc = "exit"
    /\ conn = "closed"
    /\ Len(symbols) >= 2
    /\ \E i \in 1..Len(result) : result[i] = "UpsertError"
    /\ \E i \in 1..Len(result) : result[i] = "FetchError"

\* C12: a run with no API key ends with exit code 1 and never attempts the
\* connection; a run whose connection attempt fails ends with exit code 2;
\* in both cases no symbol is fetched and the store is untouched, and a run
\* that went through the symbol loop ends with another code (0).
C12_FatalExits ==
    /\ (pc = "exit" /\ api_key = << >>) => (exit_code = 1 /\ conn = "none")
    /\ (\E k \in 1..Len(log) : log[k].operation = "CONNECT") =>
           (pc = "exit" /\ exit_code = 2 /\ conn = "none")
    /\ (exit_code \in {1, 2}) =>
           (attempts = << >> /\ result = << >> /\ store = InitialStore /\ txn = InitialStore)
    /\ (pc = "exit" /\ conn = "closed") => exit_code \notin {1, 2}


(***************************************************************************)
(* SpecWindow: compute_window called once for a wall-clock time; times are *)
(* seconds since midnight                                                  *)
(***************************************************************************)
\* the hours of the day from which the wall-clock times are drawn
MaxWindowHours == 2

FirstWindowHour == 15

\* wall-clock times: every minute of the hours, at some seconds
WindowNows ==
    {h * 3600 + m * 60 + s0 :
        h \in FirstWindowHour..(FirstWindowHour + MaxWindowHours - 1),
        m \in 0..59, s0 \in {0, 42, 59}}

\* values of WINDOW_MINUTES; 60 is the default
WindowMinutes == {3, 5, 7, 30, 60}

\* current_hour(now): now.replace(minute=0, second=0, microsecond=0)
current_hour(now) == now - (now % 3600)

\* the smaller of two times
MinTime(a, b) == IF a < b THEN a ELSE b

\* variant: without the "at least 5 minutes" adjustment of the end
compute_window_no_minimum(now, window_min) ==
    LET start == current_hour(now)
        end0 == now - (now % 60)
        end1 == end0 - (((end0 \div 60) % 60) % 5) * 60
    IN  [start |-> start, end |-> MinTime(end1, start + window_min * 60)]

compute_window(now, window_min) ==
    LET start == current_hour(now)
        end0 == now - (now % 60)
        end1 == end0 - (((end0 \div 60) % 60) % 5) * 60
        end2 == MinTime(end1, start + window_min * 60)
    IN  [start |-> start,
         end |-> IF end2 < start + 5 * 60 THEN start + 5 * 60 ELSE end2]

InitWindow ==
    /\ BatchIdle
    /\ RunIdle
    /\ rows = << >>
    /\ log = << >>
    /\ now_local = 0
    /\ api_key = <<"k">>
    /\ fetch_log = << >>
    /\ FilesIdle
    /\ sym = << >>
    /\ table_name = NoName
    /\ win_now \in WindowNows
    /\ win_min \in WindowMinutes
    /\ win = NoWindow

\* start, end = tu.compute_window(now_local, WINDOW_MIN)
ComputeWindow ==
    /\ win = NoWindow
    /\ win' = compute_window(win_now, win_min)
    /\ UNCHANGED <<win_now, win_min, sym, table_name, api_key, fetch_log>>
    /\ UNCHANGED file_vars
    /\ UNCHANGED writer_vars
    /\ UNCHANGED <<rows, log, now_local>>
    /\ UNCHANGED batch_vars
    /\ UNCHANGED run_vars

NextWindow == ComputeWindow

SpecWindow == InitWindow /\ [][NextWindow]_vars

\* the minute of the hour of a time
MinuteOf(t) == (t \div 60) % 60

\* C13: with the default window of 60 minutes, start is now truncated to
\* the hour and end is now floored to a 5-minute boundary when the minute is
\* at least 5, otherwise start + 5 minutes; so start is on an hour boundary,
\* end on a 5-minute boundary, start < end and end - start <= 60 minutes;
\* 15:27:42 gives 15:00:00 and 15:25:00.
C13_DefaultWindow ==
    (win # NoWindow /\ win_min = 60) =>
        /\ win.start = (win_now \div 3600) * 3600
        /\ win.end = IF MinuteOf(win_now) >= 5
                     THEN (win_now \div 300) * 300
                     ELSE win.start + 300
        /\ win.start % 3600 = 0
        /\ win.end % 300 = 0
        /\ win.end > win.start
        /\ win.end - win.start <= 3600
        /\ win_now = 15 * 3600 + 27 * 60 + 42 =>
               win = [start |-> 15 * 3600, end |-> 15 * 3600 + 25 * 60]

\* the window of 15:02:42 has been computed: the end is moved to 15:05:00
C13_Witness ==
    /\ win_min = 60
    /\ win_now = 15 * 3600 + 2 * 60 + 42
    /\ win = [start |-> 15 * 3600, end |-> 15 * 3600 + 5 * 60]

\* C14: no request is sent to the market data source for a symbol that has
\* no alphanumeric character: such a symbol never appears among the symbols
\* a fetch was made for.
C14_InvalidSymbolNeverFetched ==
    \A k \in 1..Len(attempts) : safe_table_name_for_symbol(attempts[k]) # << >>


(***************************************************************************)
(* SpecSymbol: safe_table_name_for_symbol called once for a symbol string  *)
(***************************************************************************)
\* the longest symbol string
MaxSymLen == 3

\* the characters symbol strings are made of
SymbolChars == {"A", "X", "z", "7", "^", "$", "."}

SymbolStrings == UNION {[1..n -> SymbolChars] : n \in 0..MaxSymLen}

InitSymbol ==
    /\ BatchIdle
    /\ RunIdle
    /\ rows = << >>
    /\ log = << >>
    /\ now_local = 0
    /\ api_key = <<"k">>
    /\ fetch_log = << >>
    /\ FilesIdle
    /\ win_now = 0
    /\ win_min = 0
    /\ win = NoWindow
    /\ sym \in SymbolStrings
    /\ table_name = NoName

\* table = dbu.safe_table_name_for_symbol(sym)
TableName ==
    /\ table_name = NoName
    /\ table_name' = safe_table_name_for_symbol(sym)
    /\ UNCHANGED <<win_now, win_min, win, sym, api_key, fetch_log>>
    /\ UNCHANGED file_vars
    /\ UNCHANGED writer_vars
    /\ UNCHANGED <<rows, log, now_local>>
    /\ UNCHANGED batch_vars
    /\ UNCHANGED run_vars

NextSymbol == TableName

SpecSymbol == InitSymbol /\ [][NextSymbol]_vars

\* the ASCII letters and digits
AsciiLettersDigits ==
    { "A", "B", "C", "D", "E", "F", "G", "H", "I", "J", "K", "L", "M", "N",
      "O", "P", "Q", "R", "S", "T", "U", "V", "W", "X", "Y", "Z", "a", "b",
      "c", "d", "e", "f", "g", "h", "i", "j", "k", "l", "m", "n", "o", "p",
      "q", "r", "s", "t", "u", "v", "w", "x", "y", "z", "0", "1", "2", "3",
      "4", "5", "6", "7", "8", "9" }

\* each ASCII upper-case letter with its lower-case letter
UpperLowerPairs ==
    { <<"A", "a">>, <<"B", "b">>, <<"C", "c">>, <<"D", "d">>, <<"E", "e">>,
      <<"F", "f">>, <<"G", "g">>, <<"H", "h">>, <<"I", "i">>, <<"J", "j">>,
      <<"K", "k">>, <<"L", "l">>, <<"M", "m">>, <<"N", "n">>, <<"O", "o">>,
      <<"P", "p">>, <<"Q", "q">>, <<"R", "r">>, <<"S", "s">>, <<"T", "t">>,
      <<"U", "u">>, <<"V", "v">>, <<"W", "w">>, <<"X", "x">>, <<"Y", "y">>,
      <<"Z", "z">> }

Lowered(c) ==
    IF \E p \in UpperLowerPairs : p[1] = c
    THEN (CHOOSE p \in UpperLowerPairs : p[1] = c)[2]
    ELSE c

\* C15: the table name of a symbol is "market." followed by the symbol's
\* ASCII letters and digits, in their order, lower-cased, and nothing else;
\* the call raises ValueError exactly when the symbol has none; the name is
\* a function of the symbol alone.
C15_TableNameOfSymbol ==
    table_name # NoName =>
        LET kept == SelectSeq(sym, LAMBDA c : c \in AsciiLettersDigits)
        IN  /\ (table_name = << >>) <=> (kept = << >>)
            /\ kept # << >> =>
                  /\ Len(table_name) = 7 + Len(kept)
                  /\ SubSeq(table_name, 1, 7) = <<"m", "a", "r", "k", "e", "t", ".">>
                  /\ \A k \in 1..Len(kept) : table_name[7 + k] = Lowered(kept[k])
            /\ \A other \in SymbolStrings :
                  other = sym => safe_table_name_for_symbol(other) = table_name

\* the name of a symbol with a stripped character, an upper-case letter and
\* a digit has been computed
C15_Witness ==
    /\ sym = <<"^", "X", "7">>
    /\ table_name = <<"m", "a", "r", "k", "e", "t", ".", "x", "7">>


(***************************************************************************)
(* Properties of timestamp inference (checked under SpecBatch)             *)
(***************************************************************************)
\* C16: an iteration on a record with an empty date (not all-empty), taken
\* while no record of the batch has been hard-invalid, never rejects it as
\* MissingDate; the inferred timestamp is the previous record's timestamp
\* + 5 minutes, tagged date_missing_prev_row, when there is a previous
\* record, and the wall clock floored to 5 minutes, tagged
\* date_missing_wall_clock, when the record is the first of the batch.
C16_MissingDateInference ==
    [][(idx' = idx + 1 /\ Blankish(row'.date) /\ ~AllBlank(row') /\ ~hard_invalid_found) =>
          LET prev == last_ts # NoTs
              expected == IF prev THEN last_ts + 5 ELSE (now_local \div 5) * 5
              tag == IF prev THEN "date_missing_prev_row" ELSE "date_missing_wall_clock"
          IN  /\ outcome'[idx'] # "MissingDate"
              /\ infer_timestamp(last_ts, now_local, "date_missing")
                    = [ts |-> expected, reason |-> tag]
              /\ FieldsAcceptable(row') =>
                    (returned'[idx'].ts = expected /\ returned'[idx'].inferred)
              /\ prev <=> (idx > 0)
              /\ prev => (last_ts = returned[idx].ts /\ outcome[idx] = "Accepted")]_vars

\* the first two records of a batch had no date: the first got the floored
\* wall clock, the second the first one's timestamp + 5 minutes
C16_Witness ==
    /\ idx = 2
    /\ Blankish(row.date)
    /\ returned[1].inferred
    /\ returned[1].ts = (now_local \div 5) * 5
    /\ returned[2].inferred
    /\ returned[2].ts = returned[1].ts + 5
    /\ outcome = <<"Accepted", "Accepted">>

\* C20: a record whose non-empty date does not parse is rejected as
\* InvalidTimestamp only when a hard-invalid record was seen earlier in the
\* batch; with none seen, a timestamp is inferred for it (previous + 5
\* minutes, or the floored wall clock) and its fields are checked.
C20_ParseFailureInfers ==
    [][(idx' = idx + 1 /\ ~Blankish(row'.date) /\ parse_api_time(row'.date) = NoTs
            /\ ~hard_invalid_found) =>
          /\ outcome'[idx'] # "InvalidTimestamp"
          /\ FieldsAcceptable(row') =>
                (/\ outcome'[idx'] \in {"Accepted", "DuplicateTimestamp"}
                 /\ returned'[idx'].ts =
                       IF last_ts # NoTs THEN last_ts + 5 ELSE (now_local \div 5) * 5)]_vars


(***************************************************************************)
(* SpecLog: the logging functions of logging_utils.py called one after     *)
(* another; a file is its sequence of CSV records, a record a sequence of  *)
(* strings; "None" stands for the argument None                            *)
(***************************************************************************)
\* the number of logging calls
MaxLogCalls == 3

\* variant: the file is opened for writing on every call
_ensure_log_file_rewrites(fs, log_path, headers) ==
    [fs EXCEPT ![log_path] = [exists |-> TRUE, lines |-> <<headers>>]]

\* if not log_path.exists(): open("w") and write the header row
_ensure_log_file(fs, log_path, headers) ==
    IF ~fs[log_path].exists
    THEN [fs EXCEPT ![log_path] = [exists |-> TRUE, lines |-> <<headers>>]]
    ELSE fs

\* log_path.open("a") and writer.writerow(record)
AppendRecord(fs, log_path, record) ==
    [fs EXCEPT ![log_path] = [exists |-> TRUE, lines |-> Append(@.lines, record)]]

\* "x or ''": None, 0 and the empty string give the empty string
OrEmpty(x) == IF x \in {"None", "0", ""} THEN "" ELSE x

\* "x if x is not None else ''"
EmptyIfNone(x) == IF x = "None" THEN "" ELSE x

\* the number of logging calls made so far
LogCalls ==
    Len(written["api_errors.csv"]) + Len(written["data_errors.csv"])
        + Len(written["db_insert_errors.csv"])

InitLog ==
    /\ BatchIdle
    /\ RunIdle
    /\ rows = << >>
    /\ log = << >>
    /\ now_local = 0
    /\ api_key = <<"k">>
    /\ fetch_log = << >>
    /\ PureIdle
    /\ FilesIdle

\* what every logging call leaves alone
LogFrame ==
    /\ UNCHANGED <<api_key, fetch_log>>
    /\ UNCHANGED writer_vars
    /\ UNCHANGED pure_vars
    /\ UNCHANGED <<rows, log, now_local>>
    /\ UNCHANGED batch_vars
    /\ UNCHANGED run_vars

log_api_error(symbol, error_type, status_code) ==
    /\ LogCalls < MaxLogCalls
    /\ LET log_path == "api_errors.csv"
           headers == <<"timestamp", "symbol", "url", "error_type",
                        "error_message", "status_code">>
           record == <<"now", symbol, "url", error_type, "message",
                       OrEmpty(status_code)>>
       IN  /\ files' = AppendRecord(_ensure_log_file(files, log_path, headers),
                                    log_path, record)
           /\ written' = [written EXCEPT ![log_path] = Append(@, record)]
    /\ LogFrame

log_validation_error(symbol, reason) ==
    /\ LogCalls < MaxLogCalls
    /\ LET log_path == "data_errors.csv"
           headers == <<"timestamp", "symbol", "missing_fields", "inferred_date",
                        "reason", "row_json">>
           record == <<"now", symbol, "", "", OrEmpty(reason), "{}">>
       IN  /\ files' = AppendRecord(_ensure_log_file(files, log_path, headers),
                                    log_path, record)
           /\ written' = [written EXCEPT ![log_path] = Append(@, record)]
    /\ LogFrame

log_db_error(symbol, operation, error_type, row_count) ==
    /\ LogCalls < MaxLogCalls
    /\ LET log_path == "db_insert_errors.csv"
           headers == <<"timestamp", "symbol", "operation", "error_type",
                        "error_message", "table_name", "row_count">>
           record == <<"now", symbol, operation, error_type, "message",
                       "", EmptyIfNone(row_count)>>
       IN  /\ files' = AppendRecord(_ensure_log_file(files, log_path, headers),
                                    log_path, record)
           /\ written' = [written EXCEPT ![log_path] = Append(@, record)]
    /\ LogFrame

NextLog ==
    \/ \E error_type \in {"HTTPError", "Timeout"}, status_code \in {"None", "404"} :
          log_api_error("AAPL", error_type, status_code)
    \/ \E reason \in {"None", "date_missing"} :
          log_validation_error("AAPL", reason)
    \/ \E operation \in {"UPSERT", "CONNECT"}, row_count \in {"None", "0", "2"} :
          log_db_error("AAPL", operation, "OperationalError", row_count)

SpecLog == InitLog /\ [][NextLog]_vars

\* the header row of each diagnostics log
HeaderOf(f) ==
    CASE f = "api_errors.csv" ->
           <<"timestamp", "symbol", "url", "error_type", "error_message", "status_code">>
      [] f = "data_errors.csv" ->
           <<"timestamp", "symbol", "missing_fields", "inferred_date", "reason", "row_json">>
      [] f = "db_insert_errors.csv" ->
           <<"timestamp", "symbol", "operation", "error_type", "error_message",
             "table_name", "row_count">>

\* C17: a log that was absent holds, after n >= 1 calls of its logging
\* function, the header followed by the n records in call order (and is
\* still absent after none); a call never changes, removes or truncates a
\* record that is already in a file.
C17_LogAppendOnly ==
    /\ [](\A f \in LogFiles :
             IF written[f] = << >>
             THEN files[f] = AbsentFile
             ELSE files[f] = [exists |-> TRUE, lines |-> <<HeaderOf(f)>> \o written[f]])
    /\ [][\A f \in LogFiles :
             files[f].exists =>
                 /\ files'[f].exists
                 /\ Len(files'[f].lines) >= Len(files[f].lines)
                 /\ SubSeq(files'[f].lines, 1, Len(files[f].lines)) = files[f].lines]_vars

\* one log holds two different records after a call for another log
C17_Witness ==
    /\ Len(written["db_insert_errors.csv"]) = 2
    /\ written["db_insert_errors.csv"][1] # written["db_insert_errors.csv"][2]
    /\ Len(files["db_insert_errors.csv"].lines) = 3
    /\ files["api_errors.csv"].exists


(***************************************************************************)
(* SpecAuto: one run of auto_data_collection.main (the permissive variant) *)
(***************************************************************************)
\* WINDOW_MINUTES of the run (the default)
WINDOW_MIN == 60

\* compute_window of auto_data_collection.py, on minutes since midnight
auto_compute_window(now, window_min) ==
    LET start == now - (now % 60)
        end1 == now - (now % 5)
        end2 == MinTime(end1, start + window_min)
    IN  [start |-> start, end |-> IF end2 <= start THEN start + 5 ELSE end2]

\* the API responses of the model: those of FeedBatches and one whose date
\* has another format
AutoFeedBatches ==
    FeedBatches \cup {<<GoodRow(Str("2026-01-26T10:15:00"), 1)>>}

\* "if not ts_str: continue": None and the empty string are skipped
DateGiven(r) == ~(r.date.k = "none" \/ (r.date.k = "str" /\ r.date.s = ""))

\* the records of the response on which parse_api_time raises
Unparseable(d) == {k \in 1..Len(d) : DateGiven(d[k]) /\ parse_api_time(d[k].date) = NoTs}

\* the tuple appended to rows: the timestamp and the raw values
AutoTuple(r) ==
    [ts |-> parse_api_time(r.date), open |-> r.open, high |-> r.high,
     low |-> r.low, close |-> r.close, volume |-> r.volume]

\* the filter loop and the sort of fetch_and_insert
AutoFilter(d, start, end) ==
    LET kept == SelectSeq(d, LAMBDA r :
                    /\ DateGiven(r)
                    /\ start <= parse_api_time(r.date)
                    /\ parse_api_time(r.date) < end
                    /\ r.close.k # "none")
    IN  SortRows([k \in 1..Len(kept) |-> AutoTuple(kept[k])])

\* one line of logs/fetch_data_log.csv
FetchLine(symbol, start, end, api_rows, filtered_rows) ==
    [symbol |-> symbol, window_start |-> start, window_end |-> end,
     api_rows |-> api_rows, filtered_rows |-> filtered_rows]

\* a raw value the server accepts for a numeric column
Storable(value) == value.k = "none" \/ Coercible(value)

StoredValue(value) == IF value.k = "none" THEN NULL ELSE NumberOf(value)

\* the row the server stores for a tuple
AutoStored(r) ==
    [ts |-> r.ts, open |-> StoredValue(r.open), high |-> StoredValue(r.high),
     low |-> StoredValue(r.low), close |-> StoredValue(r.close),
     volume |-> StoredValue(r.volume)]

\* the single INSERT ... ON CONFLICT statement of execute_values is rejected:
\* a value is not numeric, or two tuples carry the same date
StatementRejected(rs) ==
    \/ \E k \in 1..Len(rs) :
          \E f \in {"open", "high", "low", "close", "volume"} : ~Storable(rs[k][f])
    \/ \E j, k \in 1..Len(rs) : j # k /\ rs[j].ts = rs[k].ts

InitAuto == InitRun

\* main up to the connection attempt: the clock is read and the API key checked
AutoStartup ==
    /\ pc = "startup"
    /\ \E now \in NowValues :
         /\ now > now_local
         /\ now_local' = now
    /\ IF api_key = << >>
       THEN pc' = "exit" /\ exit_code' = 1
       ELSE pc' = "connect" /\ UNCHANGED exit_code
    /\ UNCHANGED <<symbols, sym_i, feed, tables, conn, store, txn, data, table,
                   exec_i, total, attempts, result, run, api_log,
                   run_base, prev_result, calls, snap>>
    /\ UNCHANGED <<rows, log>>
    /\ UNCHANGED batch_vars
    /\ UNCHANGED ext_vars

\* db_connect(): one connection for the run, or exit code 2 (not logged)
AutoConnect ==
    /\ pc = "connect"
    /\ \E ok \in BOOLEAN :
         IF ok
         THEN /\ conn' = "idle"
              /\ pc' = "loop"
              /\ sym_i' = 1
              /\ total' = 0
              /\ UNCHANGED exit_code
         ELSE /\ pc' = "exit"
              /\ exit_code' = 2
              /\ UNCHANGED <<conn, sym_i, total>>
    /\ UNCHANGED <<symbols, feed, tables, store, txn, data, table,
                   exec_i, attempts, result, run, api_log,
                   run_base, prev_result, calls, snap>>
    /\ UNCHANGED <<rows, log, now_local>>
    /\ UNCHANGED batch_vars
    /\ UNCHANGED ext_vars

\* requests.get or raise_for_status raises: the exception reaches main
AutoFetchFails ==
    /\ pc = "loop"
    /\ sym_i <= Len(symbols)
    /\ attempts' = Append(attempts, CurSym)
    /\ result' = Append(result, "FetchError")
    /\ pc' = "except"
    /\ UNCHANGED <<symbols, sym_i, feed, tables, conn, store, txn, data, table,
                   exec_i, total, exit_code, run, api_log,
                   run_base, prev_result, calls, snap>>
    /\ UNCHANGED <<rows, log, now_local>>
    /\ UNCHANGED batch_vars
    /\ UNCHANGED ext_vars

\* fetch_and_insert from the response to the fetch log: the filter loop
\* raises on a date of another format; otherwise the rows are filtered and
\* sorted and one line is appended to the fetch log; with no row in the
\* window the function returns 0
AutoFetchAndFilter ==
    /\ pc = "loop"
    /\ sym_i <= Len(symbols)
    /\ \E d \in (IF feed[CurSym].known THEN {feed[CurSym].data} ELSE AutoFeedBatches) :
         /\ data' = d
         /\ feed' = [feed EXCEPT ![CurSym] = [known |-> TRUE, data |-> d]]
         /\ \E w \in {auto_compute_window(now_local, WINDOW_MIN)} :
              \E rs \in {AutoFilter(d, w.start, w.end)} :
                 IF Unparseable(d) # {}
                 THEN /\ result' = Append(result, "ParseError")
                      /\ pc' = "except"
                      /\ UNCHANGED <<rows, fetch_log, sym_i>>
                 ELSE /\ rows' = rs
                      /\ fetch_log' = Append(fetch_log,
                            FetchLine(CurSym, w.start, w.end, Len(d), Len(rs)))
                      /\ IF rs = << >>
                         THEN /\ result' = Append(result, "NoRows")
                              /\ pc' = "loop"
                              /\ sym_i' = sym_i + 1
                         ELSE /\ pc' = "auto_insert"
                              /\ UNCHANGED <<result, sym_i>>
    /\ attempts' = Append(attempts, CurSym)
    /\ UNCHANGED <<symbols, tables, conn, store, txn, table,
                   exec_i, total, exit_code, run, api_log,
                   run_base, prev_result, calls, snap>>
    /\ UNCHANGED <<log, now_local>>
    /\ UNCHANGED batch_vars
    /\ UNCHANGED <<api_key, win_now, win_min, win, sym, table_name, files, written>>
    /\ UNCHANGED writer_vars

\* fetch_and_insert from the table name to the return: the name may be
\* invalid, the table check may raise, the statement may be rejected;
\* otherwise the rows are upserted and committed and their count is returned
AutoInsert ==
    /\ pc = "auto_insert"
    /\ \E t \in {safe_table_name_for_symbol(CurSym)}, server_ok \in BOOLEAN :
         IF t = << >>
         THEN /\ result' = Append(result, "InvalidSymbol")
              /\ pc' = "except"
              /\ UNCHANGED <<table, conn, store, txn, total, sym_i>>
         ELSE /\ table' = t
              /\ IF conn = "inerror"
                 THEN /\ result' = Append(result, "TransactionAborted")
                      /\ pc' = "except"
                      /\ UNCHANGED <<conn, store, txn, total, sym_i>>
                 ELSE IF t \notin tables
                 THEN /\ result' = Append(result, "MissingTable")
                      /\ conn' = "intrans"
                      /\ pc' = "except"
                      /\ UNCHANGED <<store, txn, total, sym_i>>
                 ELSE IF StatementRejected(rows) \/ ~server_ok
                 THEN /\ result' = Append(result, "UpsertError")
                      /\ conn' = StatusAfterStatementError
                      /\ pc' = "except"
                      /\ UNCHANGED <<store, txn, total, sym_i>>
                 ELSE /\ txn' = [txn EXCEPT ![t] =
                            UpsertAll(@, [k \in 1..Len(rows) |-> AutoStored(rows[k])])]
                      /\ store' = txn'
                      /\ conn' = "idle"
                      /\ total' = total + Len(rows)
                      /\ result' = Append(result, "Done")
                      /\ sym_i' = sym_i + 1
                      /\ pc' = "loop"
    /\ UNCHANGED <<symbols, feed, tables, data,
                   exec_i, attempts, exit_code, run, api_log,
                   run_base, prev_result, calls, snap>>
    /\ UNCHANGED <<rows, log, now_local>>
    /\ UNCHANGED batch_vars
    /\ UNCHANGED ext_vars

\* one run of auto_data_collection.main
NextAuto ==
    \/ AutoStartup
    \/ AutoConnect
    \/ AutoFetchFails
    \/ AutoFetchAndFilter
    \/ AutoInsert
    \/ ExceptHandler
    \/ CloseConn

SpecAuto == InitAuto /\ [][NextAuto]_vars

\* C18: the fetch audit log gains exactly one line for each symbol the loop
\* has finished with, whatever the symbol's outcome was; at the end of the
\* run it holds one line per configured symbol, in list order.
C18_OneAuditLinePerSymbol ==
    /\ pc = "loop" =>
          /\ Len(fetch_log) = sym_i - 1
          /\ \A i \in 1..Len(fetch_log) : fetch_log[i].symbol = symbols[i]
    /\ (pc = "exit" /\ conn = "closed") => Len(fetch_log) = Len(symbols)


(***************************************************************************)
(* Properties of the run total (checked under SpecRun)                     *)
(***************************************************************************)
\* the surviving rows of the symbols among the first n whose upsert committed
RECURSIVE SumDone(_)
SumDone(n) ==
    IF n = 0 THEN 0
    ELSE SumDone(n - 1)
           + (IF result[n] = "Done" THEN Len(RowsOfSymbol(symbols[n])) ELSE 0)

\* C19: the total is, at every point of the loop and when it is reported,
\* the sum of the numbers of surviving rows of the symbols whose upsert
\* committed; a symbol that failed or had no surviving row adds 0.
C19_TotalIsSumOfCommitted ==
    /\ total = SumDone(Len(result))
    /\ \A i \in 1..Len(result) :
          result[i] = "Done" =>
              /\ RowsOfSymbol(symbols[i]) # << >>
              /\ \A r \in {RowsOfSymbol(symbols[i])[k] : k \in 1..Len(RowsOfSymbol(symbols[i]))} :
                    r \in store[TableOf(i)]

\* a run has ended with one symbol committed, one failed in the store, and
\* the total equal to the committed batch's size
C19_Witness ==
    /\ pc = "exit"
    /\ conn = "closed"
    /\ \E i \in 1..Len(result) : result[i] = "Done"
    /\ \E i \in 1..Len(result) : result[i] \in {"MissingTable", "NoRows", "FetchError"}
    /\ total = 2


(***************************************************************************)
(* Properties of the hard-invalid flag (checked under SpecBatch)           *)
(***************************************************************************)
\* the rejections that make a batch hard-invalid
HardKinds ==
    {"AllFieldsEmpty", "InvalidTimestamp", "SchemaTypeMismatch", "DuplicateTimestamp"}

\* a record processed so far was rejected with one of the hard kinds
HardSeen == \E i \in 1..idx : outcome[i] \in HardKinds

\* C21 as stated: after a hard-invalid record, every later record with an
\* empty date is rejected as MissingDate with no timestamp inferred; before
\* any, an empty date is inferred and never rejected as MissingDate.
C21_EmptyDateAfterHardInvalid ==
    [][(idx' = idx + 1 /\ Blankish(row'.date)) =>
          IF HardSeen
          THEN /\ outcome'[idx'] = "MissingDate"
               /\ returned'[idx'].ts = NoTs
               /\ ~returned'[idx'].inferred
          ELSE /\ outcome'[idx'] # "MissingDate"
               /\ FieldsAcceptable(row') =>
                     (returned'[idx'].inferred /\ returned'[idx'].ts # NoTs)]_vars

\* C21 amended: the same for every record with an empty date that is not
\* all-empty; an all-empty record is rejected as AllFieldsEmpty before its
\* date is looked at, whatever happened earlier in the batch.
C21_EmptyDateNotAllEmpty ==
    [][(idx' = idx + 1 /\ Blankish(row'.date)) =>
          IF AllBlank(row')
          THEN /\ outcome'[idx'] = "AllFieldsEmpty"
               /\ returned'[idx'].ts = NoTs
          ELSE IF HardSeen
          THEN /\ outcome'[idx'] = "MissingDate"
               /\ returned'[idx'].ts = NoTs
               /\ ~returned'[idx'].inferred
          ELSE /\ outcome'[idx'] # "MissingDate"
               /\ FieldsAcceptable(row') =>
                     (returned'[idx'].inferred /\ returned'[idx'].ts # NoTs)]_vars

\* a record with no date was inferred and accepted, the next record was
\* rejected for its fields, and a later record with no date but valid
\* fields was rejected as MissingDate
C21_Witness ==
    /\ idx = 3
    /\ outcome = <<"Accepted", "SchemaTypeMismatch", "MissingDate">>
    /\ returned[1].inferred
    /\ Blankish(row.date)
    /\ FieldsAcceptable(row)


(***************************************************************************)
(* Properties of the per-symbol failures of main (checked under SpecRun)   *)
(***************************************************************************)
\* the diagnostics entries written so far that name the symbol
EntriesFor(s) ==
    {k \in 1..Len(api_log) : api_log[k].symbol = s}
        \cup {Len(api_log) + k : k \in {j \in 1..Len(log) : log[j].symbol = s}}

\* C22: every per-symbol failure is converted into a diagnostics entry: when
\* the except clause of the loop is reached for a symbol, a diagnostics log
\* holds at least one entry for that symbol.
C22_FailureIsLogged ==
    pc = "except" => EntriesFor(CurSym) # {}


\* the last outcome recorded for a symbol of the run
LastResult == IF result = << >> THEN "" ELSE result[Len(result)]

\* C23: a failed fetch appends exactly one API-error entry for the symbol,
\* classified HTTPError for an HTTP status error, Timeout for a timeout and
\* otherwise by the kind of the request exception; nothing is validated,
\* checked or upserted for the symbol, and the run goes on with the next one.
C23_FetchFailureLoggedAndSkipped ==
    [][/\ (Len(attempts') = Len(attempts) + 1 /\ pc' = "except") =>
             /\ Len(api_log') = Len(api_log) + 1
             /\ SubSeq(api_log', 1, Len(api_log)) = api_log
             /\ LET e == api_log'[Len(api_log')]
                IN  /\ e.symbol = CurSym
                    /\ e.error_type =
                          (CASE e.error_message = "HTTPError" -> "HTTPError"
                             [] e.error_message \in {"ReadTimeout", "ConnectTimeout"} -> "Timeout"
                             [] OTHER -> e.error_message)
             /\ result' = Append(result, "FetchError")
             /\ UNCHANGED <<log, rows, conn, store, txn, total, sym_i>>
       /\ (pc = "except" /\ LastResult = "FetchError") =>
             /\ sym_i' = sym_i + 1
             /\ pc' = "loop"
             /\ UNCHANGED <<api_log, log, rows, conn, store, txn, total, result>>]_vars

\* a run ended after the fetch of its first symbol timed out: one entry,
\* classified Timeout, nothing stored, and the second symbol was attempted
C23_Witness ==
    /\ pc = "exit"
    /\ conn = "closed"
    /\ Len(symbols) = 2
    /\ attempts = symbols
    /\ result[1] = "FetchError"
    /\ result[2] = "Done"
    /\ Len(api_log) = 1
    /\ api_log[1].error_message = "ReadTimeout"
    /\ api_log[1].error_type = "Timeout"


\* C24: when no record of a symbol's batch survives validation, no table
\* check, statement or commit is issued for the symbol: the connection, the
\* store and the total are unchanged, the outcome is not a failure, and the
\* loop goes on with the next symbol, whether or not the table exists.
C24_EmptyBatchLeavesStoreAlone ==
    /\ [](pc \in {"insert_check", "insert_exec", "insert_returned"}
             => RowsOfSymbol(CurSym) # << >>)
    /\ [][(/\ pc = "prepare"
           /\ safe_table_name_for_symbol(CurSym) # << >>
           /\ RowsOfSymbol(CurSym) = << >>) =>
             /\ pc' = "loop"
             /\ sym_i' = sym_i + 1
             /\ result' = Append(result, "NoRows")
             /\ UNCHANGED <<conn, store, txn, total, api_log>>]_vars

\* a run ended whose first symbol had records, none of which survived, and
\* no table; the second symbol was stored
C24_Witness ==
    /\ pc = "exit"
    /\ conn = "closed"
    /\ result = <<"NoRows", "Done">>
    /\ feed[symbols[1]].data # << >>
    /\ safe_table_name_for_symbol(symbols[1]) \notin tables
    /\ total > 0
    /\ store[safe_table_name_for_symbol(symbols[1])] = InitialStore[safe_table_name_for_symbol(symbols[1])]


(***************************************************************************)
(* Properties of fetch_and_insert (checked under SpecAuto)                 *)
(***************************************************************************)
\* the records of a response that have a date inside [start, end) and a
\* close that is not null
InWindowWithClose(d, w) ==
    {k \in 1..Len(d) : /\ ~Blankish(d[k].date)
                       /\ w.start <= parse_api_time(d[k].date)
                       /\ parse_api_time(d[k].date) < w.end
                       /\ d[k].close.k # "none"}

\* C25: the rows fetch_and_insert hands to the upsert are exactly the records
\* of the response with a non-empty date inside the half-open window and a
\* non-null close, in ascending order of timestamp; with none of them the
\* function executes no statement and returns 0.
C25_PermissiveFilter ==
    [][(/\ pc = "loop"
        /\ Len(attempts') = Len(attempts) + 1
        /\ feed'[CurSym].known
        /\ data' = feed'[CurSym].data
        /\ ~(Len(result') = Len(result) + 1 /\ result'[Len(result')] = "FetchError")) =>
          LET w == auto_compute_window(now_local, WINDOW_MIN)
              keep == InWindowWithClose(data', w)
          IN  IF keep = {}
              THEN /\ pc' = "loop"
                   /\ sym_i' = sym_i + 1
                   /\ result' = Append(result, "NoRows")
                   /\ UNCHANGED <<conn, store, txn, total>>
              ELSE /\ pc' = "auto_insert"
                   /\ Len(rows') = Cardinality(keep)
                   /\ {rows'[j].ts : j \in 1..Len(rows')}
                         = {parse_api_time(data'[k].date) : k \in keep}
                   /\ \A j \in 1..(Len(rows') - 1) : rows'[j].ts <= rows'[j + 1].ts]_vars


(***************************************************************************)
(* The batch processor and the collection window (checked under SpecBatch) *)
(***************************************************************************)
\* the window main computes for the clock of the run, in minutes
MainWindow ==
    LET w == compute_window(now_local * 60, 60)
    IN  [start |-> w.start \div 60, end |-> w.end \div 60]

OutsideWindow(t) == ~(MainWindow.start <= t /\ t < MainWindow.end)

\* C26: _process_data_batch does not filter by the collection window: a
\* record with a well-formed date, acceptable fields and a timestamp not seen
\* before is accepted and returned, inside the window or not.
C26_NoWindowFilter ==
    /\ [][(/\ idx' = idx + 1
           /\ parse_api_time(row'.date) # NoTs
           /\ FieldsAcceptable(row')
           /\ parse_api_time(row'.date) \notin seen_ts) =>
             /\ outcome'[idx'] = "Accepted"
             /\ \E k \in 1..Len(rows') : rows'[k].ts = parse_api_time(row'.date)]_vars
    /\ [](bpc = "done" =>
             {rows[k].ts : k \in 1..Len(rows)}
                = {returned[i].ts : i \in {j \in 1..idx : outcome[j] = "Accepted"}})

\* the processor returned a row whose date was given and lies outside the
\* window of the run
C26_Witness ==
    /\ bpc = "done"
    /\ \E i \in 1..idx :
          /\ outcome[i] = "Accepted"
          /\ ~returned[i].inferred
          /\ OutsideWindow(returned[i].ts)
          /\ \E k \in 1..Len(rows) : rows[k].ts = returned[i].ts


\* C27: for every wall-clock time and every positive window length, the end
\* of the window is on a 5-minute boundary and the window is no longer than
\* the configured number of minutes.
C27_BoundaryAndLength ==
    win # NoWindow =>
        /\ win.end % 300 = 0
        /\ win.end - win.start <= win_min * 60


(***************************************************************************)
(* SpecWriters: several processes call log_db_error on one log file, their *)
(* file operations interleaved                                             *)
(***************************************************************************)
\* the records each writer logs
MaxWrites == 2

\* the log file the writers share
SharedLog == "db_insert_errors.csv"

SharedHeader ==
    <<"timestamp", "symbol", "operation", "error_type", "error_message",
      "table_name", "row_count">>

\* the record writer w appends on its n-th call
WriterRecord(w, n) ==
    <<"now", "AAPL", "UPSERT", "OperationalError", "message", "", <<w, n>>>>

InitWriters == InitLog

\* what a step of a writer leaves alone
WriterFrame ==
    /\ UNCHANGED <<api_key, fetch_log>>
    /\ UNCHANGED pure_vars
    /\ UNCHANGED <<rows, log, now_local>>
    /\ UNCHANGED batch_vars
    /\ UNCHANGED run_vars

\* writer w calls log_db_error
WriterCalls(w) ==
    /\ wpc[w] = "idle"
    /\ wrote[w] < MaxWrites
    /\ wpc' = [wpc EXCEPT ![w] = "ensure"]
    /\ UNCHANGED <<files, written, wrote>>
    /\ WriterFrame

\* _ensure_log_file: "if not log_path.exists()"
WriterChecksExists(w) ==
    /\ wpc[w] = "ensure"
    /\ wpc' = [wpc EXCEPT ![w] = IF files[SharedLog].exists THEN "append" ELSE "create"]
    /\ UNCHANGED <<files, written, wrote>>
    /\ WriterFrame

\* _ensure_log_file: log_path.open("w") empties the file whatever it holds
\* by now, and the header row is written; the two are taken as one step
WriterCreates(w) ==
    /\ wpc[w] = "create"
    /\ files' = _ensure_log_file_rewrites(files, SharedLog, SharedHeader)
    /\ wpc' = [wpc EXCEPT ![w] = "append"]
    /\ UNCHANGED <<written, wrote>>
    /\ WriterFrame

\* log_path.open("a") and writer.writerow(record): the call returns
WriterAppends(w) ==
    /\ wpc[w] = "append"
    /\ LET record == WriterRecord(w, wrote[w] + 1)
       IN  /\ files' = AppendRecord(files, SharedLog, record)
           /\ written' = [written EXCEPT ![SharedLog] = Append(@, record)]
    /\ wrote' = [wrote EXCEPT ![w] = @ + 1]
    /\ wpc' = [wpc EXCEPT ![w] = "idle"]
    /\ WriterFrame

NextWriters ==
    \E w \in Writers :
        \/ WriterCalls(w)
        \/ WriterChecksExists(w)
        \/ WriterCreates(w)
        \/ WriterAppends(w)

SpecWriters == InitWriters /\ [][NextWriters]_vars

\* C28: with two writers on one initially absent log, their steps
\* interleaved in any order, the file is never truncated: every record a
\* writer has appended stays in the file, and the header appears exactly once
\* (as the first line).
C28_NoRowLostBetweenWriters ==
    LET lines == files[SharedLog].lines
    IN  /\ \A k \in 1..Len(written[SharedLog]) :
              \E j \in 1..Len(lines) : lines[j] = written[SharedLog][k]
        /\ files[SharedLog].exists =>
              /\ Cardinality({j \in 1..Len(lines) : lines[j] = SharedHeader}) = 1
              /\ lines[1] = SharedHeader


\* C29: while a batch is processed the hard-invalid flag is true exactly when
\* an earlier record of the batch was rejected, and it never returns to
\* false; so whenever a timestamp is inferred from the previous row, every
\* earlier record was accepted and the timestamp is that of the record just
\* before, plus 5 minutes.
C29_FlagIffEarlierRejection ==
    /\ [](hard_invalid_found <=> \E i \in 1..idx : outcome[i] # "Accepted")
    /\ [][hard_invalid_found => hard_invalid_found']_vars
    /\ [][(idx' = idx + 1 /\ returned'[idx'].inferred /\ last_ts # NoTs) =>
             /\ idx >= 1
             /\ \A i \in 1..idx : outcome[i] = "Accepted"
             /\ last_ts = returned[idx].ts
             /\ returned'[idx'].ts = returned[idx].ts + 5]_vars

\* a third record was rejected as MissingDate after a rejection, and before
\* that a second record had its timestamp inferred from the first
C29_Witness ==
    /\ idx = MaxBatch
    /\ hard_invalid_found
    /\ outcome[1] = "Accepted"
    /\ outcome[2] = "Accepted"
    /\ returned[2].inferred
    /\ returned[2].ts = returned[1].ts + 5
    /\ outcome[3] # "Accepted"


\* C30: an inferred timestamp never displaces real data: a record with a
\* well-formed date and acceptable fields is rejected as DuplicateTimestamp
\* only when an earlier record that carried the same date itself was
\* accepted, never because of a timestamp assigned by inference.
C30_InferredNeverDisplaces ==
    [][(/\ idx' = idx + 1
        /\ parse_api_time(row'.date) # NoTs
        /\ FieldsAcceptable(row')
        /\ outcome'[idx'] = "DuplicateTimestamp") =>
          \E i \in 1..idx :
              /\ outcome[i] = "Accepted"
              /\ ~returned[i].inferred
              /\ returned[i].ts = parse_api_time(row'.date)]_vars

=============================================================================
